---- MODULE Spec2Model ----
(***************************************************************************)
(* WokAPI session and identity layer: the HMAC-SHA256 token codec          *)
(* (lib/jwt), the OAuth state-nonce store and callback flow (routes/auth)  *)
(* and the auth gate (middleware).                                         *)
(*                                                                         *)
(* Strings are sequences of character codes and byte strings are sequences *)
(* of 0..255, so that base64url, UTF-8 and JSON are computed rather than   *)
(* assumed.  The strings of the model are ASCII.                           *)
(***************************************************************************)
EXTENDS Integers, Sequences, FiniteSets, TLC

(***************************************************************************)
(* Bounds of the model.                                                    *)
(***************************************************************************)
\* longest arbitrary (client-made) token string given to verifyJWT
MaxForgedLen == 3

\* the clock's first value, in epoch seconds
Epoch0 == 1700000000

\* request slots: the requests (callbacks, gated requests) of one behaviour
MaxReqs == 2

\* nonces generateState can issue in one behaviour
MaxNonces == 1

\* user ids upsertUser can generate in one behaviour
MaxUsers == 2

\* clock advances in one behaviour
MaxTicks == 1

\* upsertUser calls in one behaviour of SpecUpsert
MaxCalls == 3

(***************************************************************************)
(* Program constants.                                                      *)
(***************************************************************************)
SESSION_TTL == 604800

STATE_TTL == 600

VARIABLES
  codec,      \* the token codec driven on its own: inputs, token, verify's outcome
  now,        \* Math.floor(Date.now() / 1000)
  ticks,      \* clock advances so far
  kv,         \* OAUTH_STATE: nonce -> expiration instant of oauth_state:<nonce>, 0 = no key
  nextNonce,  \* the next value generateState draws
  issued,     \* nonce -> the provider whose /auth/{provider} issued it and when
  users,      \* table users
  accounts,   \* table oauth_accounts
  nextUser,   \* the next id crypto.randomUUID gives upsertUser
  reqs,       \* request slot -> the request in it and its handler's position
  consumeLog, \* consumeState calls in order of return: nonce, result, time of the get
  serial      \* TRUE: the scheduler lets no two consumeState calls overlap

vars == <<codec, now, ticks, kv, nextNonce, issued, users, accounts, nextUser,
          reqs, consumeLog, serial>>

sysvars == <<now, ticks, kv, nextNonce, issued, users, accounts, nextUser,
             reqs, consumeLog, serial>>

(***************************************************************************)
(* Outcome of a call: a returned value or a raised exception.              *)
(***************************************************************************)
Ret(v) == [kind |-> "return", val |-> v]

Throw == [kind |-> "throw", val |-> <<>>]

(***************************************************************************)
(* JSON values.  Every value carries the same fields so that any two can   *)
(* be compared: t is the type tag, n the number (or 0/1 of a boolean),     *)
(* s the characters of a string, f the members of an object in insertion   *)
(* order, each a pair <<key, value>>.                                      *)
(***************************************************************************)
JNull == [t |-> "null", n |-> 0, s |-> <<>>, f |-> <<>>]

JUndefined == [t |-> "undefined", n |-> 0, s |-> <<>>, f |-> <<>>]

JBool(b) == [t |-> "boolean", n |-> IF b THEN 1 ELSE 0, s |-> <<>>, f |-> <<>>]

JNum(k) == [t |-> "number", n |-> k, s |-> <<>>, f |-> <<>>]

JStr(str) == [t |-> "string", n |-> 0, s |-> str, f |-> <<>>]

JObj(members) == [t |-> "object", n |-> 0, s |-> <<>>, f |-> members]

\* payload.key of JavaScript: the member's value (the last one of that name),
\* undefined when there is none or the value is a primitive
RECURSIVE GetFrom(_, _, _)
GetFrom(members, key, i) ==
  IF i = 0 THEN JUndefined
  ELSE IF members[i][1] = key THEN members[i][2]
  ELSE GetFrom(members, key, i - 1)

Get(v, key) == IF v.t = "object" THEN GetFrom(v.f, key, Len(v.f)) ELSE JUndefined

\* !v of JavaScript
Falsy(v) ==
  \/ v.t \in {"null", "undefined"}
  \/ v.t = "boolean" /\ v.n = 0
  \/ v.t = "number" /\ v.n = 0
  \/ v.t = "string" /\ v.s = <<>>

(***************************************************************************)
(* Character data used by the codec.                                       *)
(***************************************************************************)
StrAlg == <<97, 108, 103>>          \* alg

StrHS256 == <<72, 83, 50, 53, 54>>  \* HS256

StrTyp == <<116, 121, 112>>         \* typ

StrJWT == <<74, 87, 84>>            \* JWT

StrSub == <<115, 117, 98>>          \* sub

StrExp == <<101, 120, 112>>         \* exp

StrNull == <<110, 117, 108, 108>>   \* null

StrTrue == <<116, 114, 117, 101>>   \* true

StrFalse == <<102, 97, 108, 115, 101>>  \* false

StrDot == <<46>>                    \* .

(***************************************************************************)
(* JSON.stringify, for the values above (strings without characters that   *)
(* need escaping).                                                         *)
(***************************************************************************)
RECURSIVE Decimal(_)
Decimal(k) ==
  IF k < 0 THEN <<45>> \o Decimal(0 - k)
  ELSE IF k < 10 THEN <<48 + k>>
  ELSE Decimal(k \div 10) \o <<48 + (k % 10)>>

RECURSIVE StringifyMembers(_, _)
RECURSIVE JSONstringify(_)
JSONstringify(v) ==
  CASE v.t = "null" -> StrNull
    [] v.t = "boolean" -> IF v.n = 1 THEN StrTrue ELSE StrFalse
    [] v.t = "number" -> Decimal(v.n)
    [] v.t = "string" -> <<34>> \o v.s \o <<34>>
    [] v.t = "object" -> <<123>> \o StringifyMembers(v.f, 1) \o <<125>>

StringifyMembers(members, i) ==
  IF i > Len(members) THEN <<>>
  ELSE (IF i > 1 THEN <<44>> ELSE <<>>)
       \o <<34>> \o members[i][1] \o <<34, 58>> \o JSONstringify(members[i][2])
       \o StringifyMembers(members, i + 1)

(***************************************************************************)
(* JSON.parse: a recursive-descent parser of objects, strings without      *)
(* escapes, integers, true, false and null, with optional white space.     *)
(* A parse step yields [ok, v, next]: next is the position after the value.*)
(***************************************************************************)
PFail == [ok |-> FALSE, v |-> JNull, next |-> 0]

POk(v, next) == [ok |-> TRUE, v |-> v, next |-> next]

IsWs(c) == c \in {32, 9, 10, 13}

IsDigit(c) == c >= 48 /\ c <= 57

RECURSIVE SkipWs(_, _)
SkipWs(t, i) == IF i <= Len(t) /\ IsWs(t[i]) THEN SkipWs(t, i + 1) ELSE i

HasAt(t, i, lit) ==
  /\ i + Len(lit) - 1 <= Len(t)
  /\ \A k \in 1..Len(lit) : t[i + k - 1] = lit[k]

\* the position of the closing quote of a string whose first character is at i,
\* 0 when the string is unterminated or holds a control character or an escape
RECURSIVE StringEnd(_, _)
StringEnd(t, i) ==
  IF i > Len(t) THEN 0
  ELSE IF t[i] = 34 THEN i
  ELSE IF t[i] < 32 \/ t[i] = 92 THEN 0
  ELSE StringEnd(t, i + 1)

RECURSIVE DigitsEnd(_, _)
DigitsEnd(t, i) == IF i <= Len(t) /\ IsDigit(t[i]) THEN DigitsEnd(t, i + 1) ELSE i

RECURSIVE DigitsValue(_, _, _, _)
DigitsValue(t, i, j, acc) ==
  IF i >= j THEN acc ELSE DigitsValue(t, i + 1, j, acc * 10 + (t[i] - 48))

ParseString(t, i) ==
  LET e == StringEnd(t, i + 1)
  IN IF e = 0 THEN PFail ELSE POk(JStr(SubSeq(t, i + 1, e - 1)), e + 1)

ParseNumber(t, i) ==
  LET neg == t[i] = 45
      d == IF neg THEN i + 1 ELSE i
      e == DigitsEnd(t, d)
  IN IF e = d THEN PFail
     ELSE IF t[d] = 48 /\ e > d + 1 THEN PFail
     ELSE IF e <= Len(t) /\ t[e] \in {46, 101, 69} THEN PFail
     ELSE POk(JNum(IF neg THEN 0 - DigitsValue(t, d, e, 0) ELSE DigitsValue(t, d, e, 0)), e)

RECURSIVE ParseValue(_, _)
RECURSIVE ParseMembers(_, _, _)
ParseValue(t, i0) ==
  LET i == SkipWs(t, i0)
  IN IF i > Len(t) THEN PFail
     ELSE IF t[i] = 123 THEN
            LET j == SkipWs(t, i + 1)
            IN IF j <= Len(t) /\ t[j] = 125 THEN POk(JObj(<<>>), j + 1)
               ELSE ParseMembers(t, j, <<>>)
     ELSE IF t[i] = 34 THEN ParseString(t, i)
     ELSE IF t[i] = 45 \/ IsDigit(t[i]) THEN ParseNumber(t, i)
     ELSE IF HasAt(t, i, StrNull) THEN POk(JNull, i + 4)
     ELSE IF HasAt(t, i, StrTrue) THEN POk(JBool(TRUE), i + 4)
     ELSE IF HasAt(t, i, StrFalse) THEN POk(JBool(FALSE), i + 5)
     ELSE PFail

ParseMembers(t, i0, acc) ==
  LET i == SkipWs(t, i0)
  IN IF i > Len(t) \/ t[i] # 34 THEN PFail
     ELSE LET k == ParseString(t, i)
          IN IF ~k.ok THEN PFail
             ELSE LET c == SkipWs(t, k.next)
                  IN IF c > Len(t) \/ t[c] # 58 THEN PFail
                     ELSE LET v == ParseValue(t, c + 1)
                          IN IF ~v.ok THEN PFail
                             ELSE LET e == SkipWs(t, v.next)
                                      acc2 == Append(acc, <<k.v.s, v.v>>)
                                  IN IF e > Len(t) THEN PFail
                                     ELSE IF t[e] = 125 THEN POk(JObj(acc2), e + 1)
                                     ELSE IF t[e] = 44 THEN ParseMembers(t, e + 1, acc2)
                                     ELSE PFail

\* JSON.parse(text): the value, or a SyntaxError
JSONparse(text) ==
  LET r == ParseValue(text, 1)
  IN IF r.ok /\ SkipWs(text, r.next) > Len(text) THEN Ret(r.v) ELSE Throw

(***************************************************************************)
(* TextEncoder.encode and TextDecoder.decode (UTF-8), for code units below *)
(* 0x800: one byte below 0x80, two bytes from there on.  The decoder       *)
(* replaces a malformed sequence by U+FFFD, as the non-fatal decoder does. *)
(***************************************************************************)
\* the concatenation of the sequences seqs[lo..hi], by halves
RECURSIVE Flatten(_, _, _)
Flatten(seqs, lo, hi) ==
  IF lo > hi THEN <<>>
  ELSE IF lo = hi THEN seqs[lo]
  ELSE LET mid == (lo + hi) \div 2
       IN Flatten(seqs, lo, mid) \o Flatten(seqs, mid + 1, hi)

TextEncode(str) ==
  Flatten([k \in 1..Len(str) |->
             IF str[k] < 128 THEN <<str[k]>>
             ELSE <<192 + (str[k] \div 64), 128 + (str[k] % 64)>>],
          1, Len(str))

IsLead2(b) == b >= 194 /\ b <= 223

IsCont(b) == b >= 128 /\ b <= 191

TextDecode(bytes) ==
  Flatten([k \in 1..Len(bytes) |->
             IF bytes[k] < 128 THEN <<bytes[k]>>
             ELSE IF IsLead2(bytes[k]) /\ k < Len(bytes) /\ IsCont(bytes[k + 1])
                  THEN <<(bytes[k] - 192) * 64 + (bytes[k + 1] - 128)>>
             ELSE IF IsCont(bytes[k]) /\ k > 1 /\ IsLead2(bytes[k - 1]) THEN <<>>
             ELSE <<65533>>],
          1, Len(bytes))

(***************************************************************************)
(* btoa and atob.  atob is the forgiving base64 decoder: it drops ASCII    *)
(* white space, accepts missing padding, raises on a character outside the *)
(* alphabet or on a length that leaves a remainder of 1 modulo 4, and      *)
(* discards the unused low bits of the last character.                     *)
(***************************************************************************)
B64Char(i) ==
  IF i < 26 THEN 65 + i
  ELSE IF i < 52 THEN 97 + (i - 26)
  ELSE IF i < 62 THEN 48 + (i - 52)
  ELSE IF i = 62 THEN 43 ELSE 47

B64Val(c) ==
  IF c >= 65 /\ c <= 90 THEN c - 65
  ELSE IF c >= 97 /\ c <= 122 THEN c - 97 + 26
  ELSE IF c >= 48 /\ c <= 57 THEN c - 48 + 52
  ELSE IF c = 43 THEN 62
  ELSE IF c = 47 THEN 63 ELSE 0 - 1

\* the i-th element of a sequence, 0 beyond its end
At0(b, i) == IF i <= Len(b) THEN b[i] ELSE 0

btoa(b) ==
  [k \in 1..(4 * ((Len(b) + 2) \div 3)) |->
     LET g == 3 * ((k - 1) \div 4)
         r == (k - 1) % 4
         b1 == At0(b, g + 1)
         b2 == At0(b, g + 2)
         b3 == At0(b, g + 3)
     IN IF r = 0 THEN B64Char(b1 \div 4)
        ELSE IF r = 1 THEN B64Char((b1 % 4) * 16 + (b2 \div 16))
        ELSE IF r = 2 THEN (IF g + 2 > Len(b) THEN 61
                            ELSE B64Char((b2 % 16) * 4 + (b3 \div 64)))
        ELSE (IF g + 3 > Len(b) THEN 61 ELSE B64Char(b3 % 64))]

\* the bytes of a sequence of 6-bit values whose length is not 1 modulo 4
AtobGroups(v) ==
  [j \in 1..((3 * Len(v)) \div 4) |->
     LET g == 4 * ((j - 1) \div 3)
         r == (j - 1) % 3
     IN IF r = 0 THEN v[g + 1] * 4 + (v[g + 2] \div 16)
        ELSE IF r = 1 THEN (v[g + 2] % 16) * 16 + (v[g + 3] \div 4)
        ELSE (v[g + 3] % 4) * 64 + v[g + 4]]

atob(str) ==
  LET noWs == SelectSeq(str, LAMBDA c : ~(c \in {9, 10, 12, 13, 32}))
      n == Len(noWs)
      unpadded ==
        IF n % 4 = 0 /\ n >= 2 /\ noWs[n] = 61 /\ noWs[n - 1] = 61 THEN SubSeq(noWs, 1, n - 2)
        ELSE IF n % 4 = 0 /\ n >= 1 /\ noWs[n] = 61 THEN SubSeq(noWs, 1, n - 1)
        ELSE noWs
  IN IF Len(unpadded) % 4 = 1 THEN Throw
     ELSE IF \E k \in 1..Len(unpadded) : B64Val(unpadded[k]) < 0 THEN Throw
     ELSE Ret(AtobGroups([k \in 1..Len(unpadded) |-> B64Val(unpadded[k])]))

\* str.replace(/a/g, b) for single characters
ReplaceAll(str, a, b) == [k \in 1..Len(str) |-> IF str[k] = a THEN b ELSE str[k]]

b64url(buf) ==
  SelectSeq(ReplaceAll(ReplaceAll(btoa(buf), 43, 45), 47, 95), LAMBDA c : c # 61)

b64urlDecode(str) == atob(ReplaceAll(ReplaceAll(str, 45, 43), 95, 47))

(***************************************************************************)
(* HMAC-SHA256.  The key is the UTF-8 bytes of the secret; HMAC pads a key *)
(* of at most one hash block with zero bytes to the block length before    *)
(* use.  The tag is modelled as a collision-free function of the padded    *)
(* key block and the message: its bytes are the block followed by the      *)
(* message.  importKey raises a DataError on an empty key.                 *)
(***************************************************************************)
HMAC_BLOCK == 64

Zeros(k) == [i \in 1..k |-> 0]

KeyBlock(keyData) == keyData \o Zeros(HMAC_BLOCK - Len(keyData))

importKey(secret) ==
  LET data == TextEncode(secret)
  IN IF Len(data) = 0 THEN Throw ELSE Ret(data)

HmacSign(key, data) == KeyBlock(key) \o data

HmacVerify(key, signature, data) == signature = HmacSign(key, data)

(***************************************************************************)
(* token.split('.')                                                        *)
(***************************************************************************)
Split(str, sep) ==
  LET seps == {i \in 1..Len(str) : str[i] = sep}
      \* the position of the k-th separator; 0 and Len(str) + 1 bracket them
      pos(k) == IF k = 0 THEN 0
                ELSE IF k > Cardinality(seps) THEN Len(str) + 1
                ELSE CHOOSE i \in seps : Cardinality({j \in seps : j < i}) = k - 1
  IN [k \in 1..(Cardinality(seps) + 1) |-> SubSeq(str, pos(k - 1) + 1, pos(k) - 1)]

(***************************************************************************)
(* signJWT and verifyJWT.                                                  *)
(***************************************************************************)
JwtHeader == JObj(<< <<StrAlg, JStr(StrHS256)>>, <<StrTyp, JStr(StrJWT)>> >>)

signJWT(payload, secret) ==
  LET header == b64url(TextEncode(JSONstringify(JwtHeader)))
      body == b64url(TextEncode(JSONstringify(payload)))
      key == importKey(secret)
  IN IF key.kind = "throw" THEN Throw
     ELSE Ret(header \o StrDot \o body \o StrDot
              \o b64url(HmacSign(key.val, TextEncode(header \o StrDot \o body))))

\* DecodePayload without the expiry comparison
DecodePayloadNoExpiry(body, clock) ==
  LET bytes == b64urlDecode(body)
      parsed == IF bytes.kind = "throw" THEN Throw ELSE JSONparse(TextDecode(bytes.val))
  IN IF parsed.kind = "throw" THEN Ret(JNull) ELSE Ret(parsed.val)

\* the try block of verifyJWT: every exception inside it yields null
DecodePayload(body, clock) ==
  LET bytes == b64urlDecode(body)
      parsed == IF bytes.kind = "throw" THEN Throw ELSE JSONparse(TextDecode(bytes.val))
  IN IF parsed.kind = "throw" THEN Ret(JNull)
     ELSE IF parsed.val.t = "null" THEN Ret(JNull)
     ELSE IF Get(parsed.val, StrExp).t = "number" /\ Get(parsed.val, StrExp).n < clock
          THEN Ret(JNull)
     ELSE Ret(parsed.val)

\* verifyJWT that never looks at the outcome of crypto.subtle.verify
verifyJWTNoSignatureCheck(token, secret, clock) ==
  LET parts == Split(token, 46)
  IN IF Len(parts) # 3 THEN Ret(JNull)
     ELSE IF importKey(secret).kind = "throw" THEN Throw
     ELSE IF b64urlDecode(parts[3]).kind = "throw" THEN Throw
     ELSE DecodePayload(parts[2], clock)

\* verifyJWT that recomputes the tag over the payload segment alone
verifyJWTTagOverBody(token, secret, clock) ==
  LET parts == Split(token, 46)
  IN IF Len(parts) # 3 THEN Ret(JNull)
     ELSE IF importKey(secret).kind = "throw" THEN Throw
     ELSE IF b64urlDecode(parts[3]).kind = "throw" THEN Throw
     ELSE IF ~HmacVerify(importKey(secret).val, b64urlDecode(parts[3]).val,
                         TextEncode(parts[2]))
          THEN Ret(JNull)
     ELSE DecodePayload(parts[2], clock)

\* verifyJWT that only rejects a token of fewer than three segments
verifyJWTAtLeastThree(token, secret, clock) ==
  LET parts == Split(token, 46)
  IN IF Len(parts) < 3 THEN Ret(JNull)
     ELSE IF importKey(secret).kind = "throw" THEN Throw
     ELSE IF b64urlDecode(parts[3]).kind = "throw" THEN Throw
     ELSE IF ~HmacVerify(importKey(secret).val, b64urlDecode(parts[3]).val,
                         TextEncode(parts[1] \o StrDot \o parts[2]))
          THEN Ret(JNull)
     ELSE DecodePayload(parts[2], clock)

verifyJWT(token, secret, clock) ==
  LET parts == Split(token, 46)
  IN IF Len(parts) # 3 THEN Ret(JNull)
     ELSE LET header == parts[1]
              body == parts[2]
              sig == parts[3]
              key == importKey(secret)
              sigBytes == b64urlDecode(sig)
          IN IF key.kind = "throw" THEN Throw
             ELSE IF sigBytes.kind = "throw" THEN Throw
             ELSE IF ~HmacVerify(key.val, sigBytes.val, TextEncode(header \o StrDot \o body))
                  THEN Ret(JNull)
             ELSE DecodePayload(body, clock)

(***************************************************************************)
(* The stores and the requests.                                            *)
(***************************************************************************)
Providers == {"github", "google", "discord"}

NULL == "<null>"          \* null of JavaScript, NULL of SQL

UNDEF == "<undefined>"    \* undefined of JavaScript

\* !x of JavaScript for a string, null or undefined
Missing(x) == x \in {NULL, UNDEF, ""}

\* String(x)
String(x) == IF x = UNDEF THEN "undefined" ELSE IF x = NULL THEN "null" ELSE x

JWT_SECRET == <<115, 49>> \* s1

Reqs == 1..MaxReqs

Nonces == 1..MaxNonces

\* the state parameter of a callback: 0 is a missing parameter, MaxNonces + 1
\* a value generateState never returns
StateParams == 0..(MaxNonces + 1)

\* the characters of user id k (crypto.randomUUID().replace(/-/g, ''))
IdChars(k) == <<117>> \o Decimal(k)

NoProfile == [email |-> NULL, username |-> NULL, displayName |-> NULL, avatarUrl |-> NULL]

NoRaw == [id |-> NULL, login |-> NULL, name |-> NULL, avatar |-> NULL, email |-> NULL]

\* a response body: none, the text of the default error handler, or a JSON
\* object with these keys, errorKeys being the keys of its error member when
\* that is an object
NoBody == [kind |-> "none", keys |-> {}, errorKeys |-> {}]

TextBody == [kind |-> "text", keys |-> {}, errorKeys |-> {}]

JsonBody(keys, errorKeys) == [kind |-> "json", keys |-> keys, errorKeys |-> errorKeys]

\* the body each handler gives its responses
BodyOf(route, status) ==
  CASE status = 500 -> TextBody
    [] route = "callback" /\ status = 400 -> JsonBody({"error"}, {})
    [] route = "gate" /\ status = 401 ->
         JsonBody({"data", "error"}, {"code", "message", "status"})
    [] route = "me" /\ status = 401 -> JsonBody({"ok", "error"}, {})
    [] route = "me" /\ status = 200 -> JsonBody({"ok", "user"}, {})
    [] route = "logout" /\ status = 200 -> JsonBody({"ok"}, {})
    [] OTHER -> NoBody

NoRow == [id |-> 0, email |-> NULL, username |-> NULL, display_name |-> NULL,
          avatar_url |-> NULL]

IdleReq ==
  [route |-> "none", pc |-> "idle", provider |-> "none", code |-> FALSE, state |-> 0,
   header |-> <<>>, token |-> <<>>, at |-> NULL, raw |-> NoRaw, puid |-> NULL,
   prof |-> NoProfile, existing |-> 0, uid |-> 0, status |-> 0, error |-> "",
   cookie |-> <<>>, calls |-> <<>>, wrote |-> FALSE, payload |-> JNull,
   user |-> NoRow, vnow |-> 0, location |-> "", steps |-> <<>>, noToken |-> FALSE,
   noId |-> FALSE, miss |-> "", minted |-> 0,
   before |-> [users |-> {}, accounts |-> {}],
   args |-> [puid |-> NULL, prof |-> NoProfile], setCookie |-> <<>>, body |-> NoBody]

\* the user and the linked account an earlier GitHub login has left behind
FirstUser == [id |-> 1, email |-> "e1", username |-> "l7", display_name |-> "n7",
              avatar_url |-> "av7"]

FirstAccount == [user_id |-> 1, provider |-> "github", provider_user_id |-> "7",
                 access_token |-> "at1"]

\* the database is empty, or holds the user of an earlier login
SystemStart(serialMode, signedUp) ==
  /\ now = Epoch0
  /\ ticks = 0
  /\ kv = [n \in Nonces |-> 0]
  /\ nextNonce = 1
  /\ issued = [n \in Nonces |-> [by |-> "none", at |-> 0]]
  /\ users = IF signedUp THEN {FirstUser} ELSE {}
  /\ accounts = IF signedUp THEN {FirstAccount} ELSE {}
  /\ nextUser = IF signedUp THEN 2 ELSE 1
  /\ reqs = [r \in Reqs |-> IdleReq]
  /\ consumeLog = <<>>
  /\ serial = serialMode

SystemIdle == SystemStart(FALSE, FALSE)

\* a handler returns a response: the locals die with the request
Respond(q, status, error) ==
  [q EXCEPT !.pc = "done", !.status = status, !.error = error,
            !.body = BodyOf(q.route, status),
            !.at = NULL, !.raw = NoRaw, !.puid = NULL, !.prof = NoProfile,
            !.existing = 0]

\* an exception leaves the handler: Hono's default error handler answers 500
Raise(q) == Respond(q, 500, "Internal Server Error")

(***************************************************************************)
(* The clock.                                                              *)
(***************************************************************************)
TickDeltas == {STATE_TTL - 1, STATE_TTL}

Tick ==
  /\ ticks < MaxTicks
  /\ \E d \in TickDeltas : now' = now + d
  /\ ticks' = ticks + 1
  /\ UNCHANGED <<codec, kv, nextNonce, issued, users, accounts, nextUser, reqs,
                 consumeLog, serial>>

(***************************************************************************)
(* GET /auth/{provider}: generateState and the redirect.  The handler has   *)
(* one store operation, the put.                                           *)
(***************************************************************************)
generateState(provider) ==
  /\ nextNonce <= MaxNonces
  /\ kv' = [kv EXCEPT ![nextNonce] = now + STATE_TTL]
  /\ issued' = [issued EXCEPT ![nextNonce] = [by |-> provider, at |-> now]]
  /\ nextNonce' = nextNonce + 1

Login ==
  /\ \E provider \in Providers : generateState(provider)
  /\ UNCHANGED <<codec, now, ticks, users, accounts, nextUser, reqs, consumeLog, serial>>

(***************************************************************************)
(* consumeState, in its two store operations.                              *)
(***************************************************************************)
\* kv.get on a store that never expires a key
KvLiveForever(n) == n \in Nonces /\ kv[n] # 0

\* kv.get: the value of a key that is there and has not expired
KvLive(n) == n \in Nonces /\ kv[n] # 0 /\ now < kv[n]

InConsume(q) == q.route = "callback" /\ q.pc \in {"kv_delete"}

\* request slots are taken in order: the slots are interchangeable
SlotsInOrder(r) == IF r = 1 THEN TRUE ELSE reqs[r - 1].pc # "idle"

\* a callback that enters consumeState whenever a state is there
CallbackStartWithoutCode(r) ==
  /\ reqs[r].pc = "idle"
  /\ SlotsInOrder(r)
  /\ \E provider \in Providers, code \in BOOLEAN, state \in StateParams :
       LET q == [reqs[r] EXCEPT !.route = "callback", !.provider = provider,
                                !.code = code, !.state = state]
       IN reqs' = [reqs EXCEPT ![r] =
                     IF state = 0
                     THEN Respond(q, 400, "Missing code or state")
                     ELSE [q EXCEPT !.pc = "kv_get"]]
  /\ UNCHANGED <<codec, now, ticks, kv, nextNonce, issued, users, accounts, nextUser,
                 consumeLog, serial>>

\* the callback reads the query; consumeState is entered when both are there
CallbackStart(r) ==
  /\ reqs[r].pc = "idle"
  /\ SlotsInOrder(r)
  /\ \E provider \in Providers, code \in BOOLEAN, state \in StateParams :
       LET q == [reqs[r] EXCEPT !.route = "callback", !.provider = provider,
                                !.code = code, !.state = state]
       IN reqs' = [reqs EXCEPT ![r] =
                     IF ~code \/ state = 0
                     THEN Respond(q, 400, "Missing code or state")
                     ELSE [q EXCEPT !.pc = "kv_get"]]
  /\ UNCHANGED <<codec, now, ticks, kv, nextNonce, issued, users, accounts, nextUser,
                 consumeLog, serial>>

\* why kv.get finds no value: the key was never put, was deleted, or has expired
MissKind(n) ==
  IF n \notin Nonces \/ n >= nextNonce THEN "unissued"
  ELSE IF kv[n] = 0 THEN "consumed"
  ELSE "expired"

\* a response that tells the caller why the state was not accepted
InvalidStateTellsWhy(q, kind) ==
  [Respond(q, 400, IF kind = "unissued" THEN "Invalid state" ELSE "State no longer valid")
     EXCEPT !.miss = kind]

\* if (!(await consumeState(...))) return c.json({ error: 'Invalid state' }, 400)
InvalidState(q, kind) == [Respond(q, 400, "Invalid state") EXCEPT !.miss = kind]

\* consumeState that takes every key for present
KvGetFindsAnyKey(r) ==
  /\ reqs[r].pc = "kv_get"
  /\ serial => \A o \in Reqs : ~InConsume(reqs[o])
  /\ reqs' = [reqs EXCEPT ![r] = [reqs[r] EXCEPT !.pc = "kv_delete", !.vnow = now]]
  /\ UNCHANGED <<codec, now, ticks, kv, nextNonce, issued, users, accounts, nextUser,
                 consumeLog, serial>>

\* const val = await kv.get(...); if (!val) return false
KvGet(r) ==
  /\ reqs[r].pc = "kv_get"
  /\ serial => \A o \in Reqs : ~InConsume(reqs[o])
  /\ LET q == reqs[r]
     IN IF KvLive(q.state)
        THEN /\ reqs' = [reqs EXCEPT ![r] = [q EXCEPT !.pc = "kv_delete", !.vnow = now]]
             /\ UNCHANGED consumeLog
        ELSE /\ reqs' = [reqs EXCEPT ![r] =
                           InvalidState([q EXCEPT !.vnow = now], MissKind(q.state))]
             /\ consumeLog' = Append(consumeLog,
                                     [nonce |-> q.state, ok |-> FALSE, at |-> now,
                                      issued |-> q.state < nextNonce])
  /\ UNCHANGED <<codec, now, ticks, kv, nextNonce, issued, users, accounts, nextUser,
                 serial>>

\* consumeState that reads the key and leaves it in the store
KvDeleteKeepsKey(r) ==
  /\ reqs[r].pc = "kv_delete"
  /\ reqs' = [reqs EXCEPT ![r] = [reqs[r] EXCEPT !.pc = "exchange",
                                                 !.steps = Append(@, "consume")]]
  /\ consumeLog' = Append(consumeLog,
                          [nonce |-> reqs[r].state, ok |-> TRUE, at |-> reqs[r].vnow,
                           issued |-> TRUE])
  /\ UNCHANGED <<codec, now, ticks, kv, nextNonce, issued, users, accounts, nextUser,
                 serial>>

\* await kv.delete(...); return true
KvDelete(r) ==
  /\ reqs[r].pc = "kv_delete"
  /\ kv' = [kv EXCEPT ![reqs[r].state] = 0]
  /\ reqs' = [reqs EXCEPT ![r] = [reqs[r] EXCEPT !.pc = "exchange",
                                                 !.steps = Append(@, "consume")]]
  /\ consumeLog' = Append(consumeLog,
                          [nonce |-> reqs[r].state, ok |-> TRUE, at |-> reqs[r].vnow,
                           issued |-> TRUE])
  /\ UNCHANGED <<codec, now, ticks, nextNonce, issued, users, accounts, nextUser, serial>>


(***************************************************************************)
(* The codec on its own: sign a payload with one secret, optionally alter  *)
(* the token or take an arbitrary string instead, and verify it with a     *)
(* second secret at some clock value.                                      *)
(***************************************************************************)
IdA == <<97, 49>>      \* a1

SecretK == <<107>>     \* k

SecretPool == {<<>>, SecretK, <<107, 0>>, <<106>>}

PayloadPool ==
  { JObj(<< <<StrSub, JStr(IdA)>>, <<StrExp, JNum(Epoch0)>> >>),
    JObj(<< <<StrSub, JStr(IdA)>>, <<StrExp, JNum(Epoch0 + SESSION_TTL)>> >>),
    JObj(<< <<StrSub, JStr(IdA)>>, <<StrExp, JStr(Decimal(Epoch0 - 1))>> >>),
    JObj(<< <<StrSub, JStr(IdA)>> >>),
    JObj(<< <<StrSub, JNum(7)>>, <<StrExp, JNum(Epoch0 - 1)>> >>),
    JObj(<< <<StrExp, JNull>>, <<StrSub, JBool(TRUE)>> >>),
    JObj(<<>>) }

NowPool == {Epoch0 - 1, Epoch0, Epoch0 + 1}

\* client-made strings: every string over '.', 'e' and '!' up to MaxForgedLen
ForgedAlphabet == {46, 101, 33}

ForgedTokens ==
  UNION {[1..n -> ForgedAlphabet] : n \in 0..MaxForgedLen}

\* payload segments that are not the encoding of a JSON object: not base64
\* ("!"), of a length base64 never has ("e"), not JSON ("{"), or JSON that is
\* no object (null, 1)
OddBodies ==
  { <<33>>, <<101>>,
    b64url(<<123>>), b64url(StrNull), b64url(<<49>>) }

\* header.body signed with the secret, whatever the two segments hold
SignSegments(header, body, secret) ==
  header \o StrDot \o body \o StrDot
  \o b64url(HmacSign(TextEncode(secret), TextEncode(header \o StrDot \o body)))

\* what a holder of a signed token (and, for "rebody", of the secret) can make of it
Altered(token, secret) ==
  LET parts == Split(token, 46)
  IN { [how |-> "extended", token |-> token \o <<46, 101>>],
       [how |-> "truncated", token |-> parts[1] \o StrDot \o parts[2]],
       [how |-> "badsig", token |-> parts[1] \o StrDot \o parts[2] \o <<46, 33>>],
       [how |-> "oddsig", token |-> token \o <<101>>] }
     \cup { [how |-> "rebody", token |-> SignSegments(parts[1], b, secret)] : b \in OddBodies }

NoResult == [kind |-> "none", val |-> <<>>]

CodecInit ==
  codec \in [pc : {"input"}, payload : PayloadPool, secret : SecretPool,
             vsecret : SecretPool, now : NowPool, token : {<<>>},
             origin : {"none"}, res : {NoResult}]

CodecIdle == [pc |-> "off", payload |-> JNull, secret |-> <<>>, vsecret |-> <<>>,
              now |-> 0, token |-> <<>>, origin |-> "none", res |-> NoResult]

JwtSign ==
  /\ codec.pc = "input"
  /\ LET t == signJWT(codec.payload, codec.secret)
     IN codec' = IF t.kind = "throw"
                 THEN [codec EXCEPT !.pc = "signfailed", !.res = Throw]
                 ELSE [codec EXCEPT !.pc = "token", !.token = t.val, !.origin = "signed"]
  /\ UNCHANGED sysvars

JwtForge ==
  /\ codec.pc = "input"
  /\ \E t \in ForgedTokens :
       codec' = [codec EXCEPT !.pc = "token", !.token = t, !.origin = "forged"]
  /\ UNCHANGED sysvars

JwtAlter ==
  /\ codec.pc = "token"
  /\ codec.origin = "signed"
  /\ \E a \in Altered(codec.token, codec.secret) :
       codec' = [codec EXCEPT !.token = a.token, !.origin = a.how]
  /\ UNCHANGED sysvars

JwtVerify ==
  /\ codec.pc = "token"
  /\ codec' = [codec EXCEPT !.pc = "verified",
                            !.res = verifyJWT(codec.token, codec.vsecret, codec.now)]
  /\ UNCHANGED sysvars


JwtInit == CodecInit /\ SystemIdle

JwtNext == JwtSign \/ JwtForge \/ JwtAlter \/ JwtVerify

SpecJwt == JwtInit /\ [][JwtNext]_vars

(***************************************************************************)
(* The callback after consumeState: token exchange, profile fetch.         *)
(* What the provider answers is the environment's choice.                  *)
(***************************************************************************)
\* tokenData.access_token: absent, or a token
TokenResponses == {NULL, "at1"}

\* the profile endpoint's JSON: an error body (no field of a profile), or a profile
ProfileResponses ==
  { [id |-> UNDEF, login |-> UNDEF, name |-> UNDEF, avatar |-> UNDEF, email |-> UNDEF],
    [id |-> "7", login |-> "l7", name |-> "n7", avatar |-> "av7", email |-> "e1"] }

\* GitHub's /user/emails: an error body (no array), or a list
EmailsResponses ==
  { [array |-> FALSE, list |-> <<>>],
    [array |-> TRUE,
     list |-> << [email |-> "e2", primary |-> FALSE, verified |-> TRUE],
                 [email |-> "e1", primary |-> TRUE, verified |-> TRUE] >>] }

\* emails.find((e) => e.primary && e.verified)?.email ?? emails[0]?.email ?? null
PrimaryEmail(list) ==
  LET hits == {i \in 1..Len(list) : list[i].primary /\ list[i].verified}
  IN IF hits # {} THEN list[CHOOSE i \in hits : \A j \in hits : i <= j].email
     ELSE IF Len(list) > 0 THEN list[1].email
     ELSE NULL

\* https://cdn.discordapp.com/avatars/${dUser.id}/${dUser.avatar}.png
DiscordAvatar(id, avatar) ==
  CASE id = "7" /\ avatar = "av7" -> "https://cdn.discordapp.com/avatars/7/av7.png"
    [] id = "8" /\ avatar = "av8" -> "https://cdn.discordapp.com/avatars/8/av8.png"
    [] OTHER -> "https://cdn.discordapp.com/avatars/?/?.png"

\* the arguments each callback passes to upsertUser, from the provider's profile
ProviderUserId(provider, raw) ==
  IF provider = "github" THEN String(raw.id) ELSE raw.id

Normalise(provider, raw, email) ==
  CASE provider = "github" ->
         [email |-> email, username |-> raw.login, displayName |-> raw.name,
          avatarUrl |-> raw.avatar]
    [] provider = "google" ->
         [email |-> raw.email, username |-> NULL, displayName |-> raw.name,
          avatarUrl |-> raw.avatar]
    [] provider = "discord" ->
         [email |-> raw.email, username |-> raw.login, displayName |-> raw.name,
          avatarUrl |-> IF Missing(raw.avatar) THEN NULL
                        ELSE DiscordAvatar(raw.id, raw.avatar)]

\* a callback that goes on to the profile whatever the token response holds
TokenExchangeUnchecked(r) ==
  /\ reqs[r].pc = "exchange"
  /\ \E at \in TokenResponses :
       LET q == [reqs[r] EXCEPT !.calls = Append(@, "token")]
       IN reqs' = [reqs EXCEPT ![r] =
                     [q EXCEPT !.pc = "profile", !.at = at, !.noToken = Missing(at),
                               !.steps = Append(@, "token")]]
  /\ UNCHANGED <<codec, now, ticks, kv, nextNonce, issued, users, accounts, nextUser,
                 consumeLog, serial>>

\* a callback that asks the token endpoint once more after a failed exchange
TokenExchangeRetries(r) ==
  /\ reqs[r].pc = "exchange"
  /\ \E at \in TokenResponses :
       LET q == [reqs[r] EXCEPT !.calls = Append(@, "token")]
       IN reqs' = [reqs EXCEPT ![r] =
                     IF Missing(at)
                     THEN IF reqs[r].calls = <<>>
                          THEN q
                          ELSE [Respond(q, 400, "Token exchange failed")
                                  EXCEPT !.noToken = TRUE]
                     ELSE [q EXCEPT !.pc = "profile", !.at = at,
                                    !.steps = Append(@, "token")]]
  /\ UNCHANGED <<codec, now, ticks, kv, nextNonce, issued, users, accounts, nextUser,
                 consumeLog, serial>>

TokenExchange(r) ==
  /\ reqs[r].pc = "exchange"
  /\ \E at \in TokenResponses :
       LET q == [reqs[r] EXCEPT !.calls = Append(@, "token")]
       IN reqs' = [reqs EXCEPT ![r] =
                     IF Missing(at)
                     THEN [Respond(q, 400, "Token exchange failed") EXCEPT !.noToken = TRUE]
                     ELSE [q EXCEPT !.pc = "profile", !.at = at,
                                    !.steps = Append(@, "token")]]
  /\ UNCHANGED <<codec, now, ticks, kv, nextNonce, issued, users, accounts, nextUser,
                 consumeLog, serial>>

ProfileFetch(r) ==
  /\ reqs[r].pc = "profile"
  /\ \E raw \in ProfileResponses :
       LET q == [reqs[r] EXCEPT !.calls = Append(@, "profile"), !.raw = raw,
                                !.puid = ProviderUserId(reqs[r].provider, raw),
                                !.noId = (raw.id = UNDEF),
                                !.steps = IF raw.id = UNDEF THEN @ ELSE Append(@, "profile")]
       IN reqs' = [reqs EXCEPT ![r] =
                     IF q.provider = "github" /\ Missing(raw.email)
                     THEN [q EXCEPT !.pc = "emails"]
                     ELSE [q EXCEPT !.pc = "select",
                                    !.prof = Normalise(q.provider, raw, raw.email)]]
  /\ UNCHANGED <<codec, now, ticks, kv, nextNonce, issued, users, accounts, nextUser,
                 consumeLog, serial>>

\* GitHub only: emails.find raises a TypeError when the body is no array
EmailsFetch(r) ==
  /\ reqs[r].pc = "emails"
  /\ \E resp \in EmailsResponses :
       LET q == [reqs[r] EXCEPT !.calls = Append(@, "emails")]
       IN reqs' = [reqs EXCEPT ![r] =
                     IF ~resp.array THEN Raise(q)
                     ELSE [q EXCEPT !.pc = "select",
                                    !.prof = Normalise(q.provider, q.raw,
                                                       PrimaryEmail(resp.list))]]
  /\ UNCHANGED <<codec, now, ticks, kv, nextNonce, issued, users, accounts, nextUser,
                 consumeLog, serial>>

(***************************************************************************)
(* upsertUser, statement by statement.  D1 raises when a bound value is    *)
(* undefined and when a statement violates a constraint of the schema.     *)
(***************************************************************************)
AccountOf(provider, puid) ==
  {a \in accounts : a.provider = provider /\ a.provider_user_id = puid}

Coalesce(x, y) == IF x # NULL THEN x ELSE y

EmailTaken(email, exceptId) ==
  email # NULL /\ \E u \in users : u.id # exceptId /\ u.email = email

\* upsertUser that does not look for the linked account and always inserts
UpsertSelectAlwaysNew(r) ==
  /\ reqs[r].pc = "select"
  /\ LET q == reqs[r]
     IN IF q.puid = UNDEF
        THEN /\ reqs' = [reqs EXCEPT ![r] = Raise(q)]
             /\ UNCHANGED nextUser
        ELSE /\ nextUser <= MaxUsers
             /\ reqs' = [reqs EXCEPT ![r] = [q EXCEPT !.pc = "ins_user", !.uid = nextUser]]
             /\ nextUser' = nextUser + 1
  /\ UNCHANGED <<codec, now, ticks, kv, nextNonce, issued, users, accounts,
                 consumeLog, serial>>

\* SELECT user_id FROM oauth_accounts WHERE provider = ? AND provider_user_id = ?
\* and, when there is no row, the new user's id
UpsertSelect(r) ==
  /\ reqs[r].pc = "select"
  /\ LET q == reqs[r]
         found == AccountOf(q.provider, q.puid)
     IN IF q.puid = UNDEF
        THEN /\ reqs' = [reqs EXCEPT ![r] = Raise(q)]
             /\ UNCHANGED nextUser
        ELSE IF found # {}
        THEN /\ reqs' = [reqs EXCEPT ![r] =
                           [q EXCEPT !.pc = "upd_account",
                                     !.existing = (CHOOSE a \in found : TRUE).user_id]]
             /\ UNCHANGED nextUser
        ELSE /\ nextUser <= MaxUsers
             /\ reqs' = [reqs EXCEPT ![r] = [q EXCEPT !.pc = "ins_user", !.uid = nextUser]]
             /\ nextUser' = nextUser + 1
  /\ UNCHANGED <<codec, now, ticks, kv, nextNonce, issued, users, accounts,
                 consumeLog, serial>>

\* UPDATE oauth_accounts SET access_token = ? WHERE provider = ? AND provider_user_id = ?
UpdateAccount(r) ==
  /\ reqs[r].pc = "upd_account"
  /\ LET q == reqs[r]
     IN /\ accounts' = {IF a \in AccountOf(q.provider, q.puid)
                        THEN [a EXCEPT !.access_token = q.at] ELSE a : a \in accounts}
        /\ reqs' = [reqs EXCEPT ![r] = [q EXCEPT !.pc = "upd_user", !.wrote = TRUE]]
  /\ UNCHANGED <<codec, now, ticks, kv, nextNonce, issued, users, nextUser,
                 consumeLog, serial>>

\* an update that also takes the username of the incoming profile
UpdateUserSetsUsername(r) ==
  /\ reqs[r].pc = "upd_user"
  /\ LET q == reqs[r]
         p == q.prof
         target == {u \in users : u.id = q.existing}
     IN IF UNDEF \in {p.email, p.displayName, p.avatarUrl}
        THEN /\ reqs' = [reqs EXCEPT ![r] = Raise(q)]
             /\ UNCHANGED users
        ELSE IF target # {} /\ EmailTaken(p.email, q.existing)
        THEN /\ reqs' = [reqs EXCEPT ![r] = Raise(q)]
             /\ UNCHANGED users
        ELSE /\ users' = {IF u.id = q.existing
                          THEN [u EXCEPT !.email = Coalesce(p.email, @),
                                         !.username = Coalesce(p.username, @),
                                         !.display_name = Coalesce(p.displayName, @),
                                         !.avatar_url = Coalesce(p.avatarUrl, @)]
                          ELSE u : u \in users}
             /\ reqs' = [reqs EXCEPT ![r] =
                           [q EXCEPT !.pc = "session", !.uid = q.existing, !.wrote = TRUE,
                                     !.steps = Append(@, "upsert")]]
  /\ UNCHANGED <<codec, now, ticks, kv, nextNonce, issued, accounts, nextUser,
                 consumeLog, serial>>

\* UPDATE users SET email = COALESCE(?, email), display_name = COALESCE(?, display_name),
\*   avatar_url = COALESCE(?, avatar_url), updated_at = datetime('now') WHERE id = ?
UpdateUser(r) ==
  /\ reqs[r].pc = "upd_user"
  /\ LET q == reqs[r]
         p == q.prof
         target == {u \in users : u.id = q.existing}
     IN IF UNDEF \in {p.email, p.displayName, p.avatarUrl}
        THEN /\ reqs' = [reqs EXCEPT ![r] = Raise(q)]
             /\ UNCHANGED users
        ELSE IF target # {} /\ EmailTaken(p.email, q.existing)
        THEN /\ reqs' = [reqs EXCEPT ![r] = Raise(q)]
             /\ UNCHANGED users
        ELSE /\ users' = {IF u.id = q.existing
                          THEN [u EXCEPT !.email = Coalesce(p.email, @),
                                         !.display_name = Coalesce(p.displayName, @),
                                         !.avatar_url = Coalesce(p.avatarUrl, @)]
                          ELSE u : u \in users}
             /\ reqs' = [reqs EXCEPT ![r] =
                           [q EXCEPT !.pc = "session", !.uid = q.existing, !.wrote = TRUE,
                                     !.steps = Append(@, "upsert")]]
  /\ UNCHANGED <<codec, now, ticks, kv, nextNonce, issued, accounts, nextUser,
                 consumeLog, serial>>

\* INSERT INTO users (id, email, username, display_name, avatar_url) VALUES (...)
InsertUser(r) ==
  /\ reqs[r].pc = "ins_user"
  /\ LET q == reqs[r]
         p == q.prof
     IN IF UNDEF \in {p.email, p.username, p.displayName, p.avatarUrl}
        THEN /\ reqs' = [reqs EXCEPT ![r] = Raise(q)]
             /\ UNCHANGED users
        ELSE IF EmailTaken(p.email, q.uid)
        THEN /\ reqs' = [reqs EXCEPT ![r] = Raise(q)]
             /\ UNCHANGED users
        ELSE /\ users' = users \cup
                           {[id |-> q.uid, email |-> p.email, username |-> p.username,
                             display_name |-> p.displayName, avatar_url |-> p.avatarUrl]}
             /\ reqs' = [reqs EXCEPT ![r] = [q EXCEPT !.pc = "ins_account", !.wrote = TRUE]]
  /\ UNCHANGED <<codec, now, ticks, kv, nextNonce, issued, accounts, nextUser,
                 consumeLog, serial>>

\* oauth_accounts without UNIQUE(provider, provider_user_id) and without the
\* foreign key
InsertAccountUnconstrained(r) ==
  /\ reqs[r].pc = "ins_account"
  /\ LET q == reqs[r]
     IN /\ accounts' = accounts \cup
                         {[user_id |-> q.uid, provider |-> q.provider,
                           provider_user_id |-> q.puid, access_token |-> q.at]}
        /\ reqs' = [reqs EXCEPT ![r] = [q EXCEPT !.pc = "session",
                                                 !.steps = Append(@, "upsert")]]
  /\ UNCHANGED <<codec, now, ticks, kv, nextNonce, issued, users, nextUser,
                 consumeLog, serial>>

\* INSERT INTO oauth_accounts (id, user_id, provider, provider_user_id, access_token)
InsertAccount(r) ==
  /\ reqs[r].pc = "ins_account"
  /\ LET q == reqs[r]
     IN IF AccountOf(q.provider, q.puid) # {} \/ ~(\E u \in users : u.id = q.uid)
        THEN /\ reqs' = [reqs EXCEPT ![r] = Raise(q)]
             /\ UNCHANGED accounts
        ELSE /\ accounts' = accounts \cup
                              {[user_id |-> q.uid, provider |-> q.provider,
                                provider_user_id |-> q.puid, access_token |-> q.at]}
             /\ reqs' = [reqs EXCEPT ![r] = [q EXCEPT !.pc = "session",
                                                      !.steps = Append(@, "upsert")]]
  /\ UNCHANGED <<codec, now, ticks, kv, nextNonce, issued, users, nextUser,
                 consumeLog, serial>>

(***************************************************************************)
(* createSession and the 302 that sets the cookie.                         *)
(***************************************************************************)
POST_LOGIN_REDIRECT == "https://wokspec.org/account"

StrCookieName ==
  <<119, 111, 107, 115, 112, 101, 99, 95, 115, 101, 115, 115, 105, 111, 110>>  \* wokspec_session

\* "; HttpOnly; Secure; SameSite=Lax; Path=/; Max-Age="
StrCookieAttrs ==
  <<59, 32, 72, 116, 116, 112, 79, 110, 108, 121, 59, 32, 83, 101, 99, 117, 114, 101,
    59, 32, 83, 97, 109, 101, 83, 105, 116, 101, 61, 76, 97, 120, 59, 32, 80, 97, 116,
    104, 61, 47, 59, 32, 77, 97, 120, 45, 65, 103, 101, 61>>

\* `${COOKIE_NAME}=${token}; HttpOnly; Secure; SameSite=Lax; Path=/; Max-Age=${SESSION_TTL}`
sessionCookie(token) ==
  StrCookieName \o <<61>> \o token \o StrCookieAttrs \o Decimal(SESSION_TTL)

\* `${COOKIE_NAME}=; HttpOnly; Secure; SameSite=Lax; Path=/; Max-Age=0`
clearCookie == StrCookieName \o <<61>> \o StrCookieAttrs \o <<48>>

createSession(userId, clock) ==
  signJWT(JObj(<< <<StrSub, JStr(IdChars(userId))>>,
                  <<StrExp, JNum(clock + SESSION_TTL)>> >>), JWT_SECRET)

\* a session whose expiry is counted from the time the state was consumed
CreateSessionFromConsumeTime(r) ==
  /\ reqs[r].pc = "session"
  /\ LET q == reqs[r]
         token == createSession(q.uid, q.vnow)
     IN reqs' = [reqs EXCEPT ![r] =
                   IF token.kind = "throw" THEN Raise(q)
                   ELSE [Respond(q, 302, "") EXCEPT !.cookie = token.val, !.minted = now,
                                                    !.setCookie = sessionCookie(token.val),
                                                    !.location = POST_LOGIN_REDIRECT]]
  /\ UNCHANGED <<codec, now, ticks, kv, nextNonce, issued, users, accounts, nextUser,
                 consumeLog, serial>>

CreateSession(r) ==
  /\ reqs[r].pc = "session"
  /\ LET q == reqs[r]
         token == createSession(q.uid, now)
     IN reqs' = [reqs EXCEPT ![r] =
                   IF token.kind = "throw" THEN Raise(q)
                   ELSE [Respond(q, 302, "") EXCEPT !.cookie = token.val, !.minted = now,
                                                    !.setCookie = sessionCookie(token.val),
                                                    !.location = POST_LOGIN_REDIRECT]]
  /\ UNCHANGED <<codec, now, ticks, kv, nextNonce, issued, users, accounts, nextUser,
                 consumeLog, serial>>

(***************************************************************************)
(* A user row is deleted; the foreign key cascades to its linked accounts. *)
(***************************************************************************)
DeleteUser ==
  /\ \E u \in users :
       /\ users' = users \ {u}
       /\ accounts' = {a \in accounts : a.user_id # u.id}
  /\ UNCHANGED <<codec, now, ticks, kv, nextNonce, issued, nextUser, reqs,
                 consumeLog, serial>>

(***************************************************************************)
(* The OAuth flow: logins and callbacks running concurrently.              *)
(***************************************************************************)
Init == codec = CodecIdle /\ \E signedUp \in BOOLEAN : SystemStart(FALSE, signedUp)

Callback(r) ==
  \/ CallbackStart(r)
  \/ KvGet(r)
  \/ KvDelete(r)
  \/ TokenExchange(r)
  \/ ProfileFetch(r)
  \/ EmailsFetch(r)
  \/ UpsertSelect(r)
  \/ UpdateAccount(r)
  \/ UpdateUser(r)
  \/ InsertUser(r)
  \/ InsertAccount(r)
  \/ CreateSession(r)

Next ==
  \/ Login
  \/ \E r \in Reqs : Callback(r)
  \/ Tick

Spec == Init /\ [][Next]_vars

\* the same flow under a scheduler that lets no two consumeState calls overlap
InitSeq == codec = CodecIdle /\ \E signedUp \in BOOLEAN : SystemStart(TRUE, signedUp)

SpecSeq == InitSeq /\ [][Next]_vars

(***************************************************************************)
(* upsertUser on its own: calls with arguments of the declared types, one  *)
(* after the other, on a database that is empty or holds an earlier login. *)
(***************************************************************************)
Calls == 1..MaxCalls

UpsertProviders == Providers

UpsertIds == {"7", "8"}

UpsertProfiles ==
  { [email |-> "e1", username |-> "l7", displayName |-> "n7", avatarUrl |-> "av7"],
    [email |-> NULL, username |-> "l7", displayName |-> NULL, avatarUrl |-> NULL],
    [email |-> "e2", username |-> "l8", displayName |-> "n8", avatarUrl |-> "av8"],
    [email |-> NULL, username |-> NULL, displayName |-> "n8", avatarUrl |-> "av7"] }

UpsertTokens == {"at1", "at2"}

\* no call is between its first statement and its return
NoCallRunning == \A o \in DOMAIN reqs : reqs[o].pc \in {"idle", "done"}

\* upsertUser(db, provider, providerUserId, profile, accessToken) is entered;
\* the arguments and the tables as they are at that moment are kept for the
\* properties
UpsertCall(r) ==
  /\ reqs[r].pc = "idle"
  /\ SlotsInOrder(r)
  /\ serial => NoCallRunning
  /\ \E provider \in UpsertProviders, puid \in UpsertIds, prof \in UpsertProfiles,
        at \in UpsertTokens :
       reqs' = [reqs EXCEPT ![r] =
                  [@ EXCEPT !.route = "upsert", !.pc = "select", !.provider = provider,
                            !.puid = puid, !.prof = prof, !.at = at,
                            !.before = [users |-> users, accounts |-> accounts],
                            !.args = [puid |-> puid, prof |-> prof]]]
  /\ UNCHANGED <<codec, now, ticks, kv, nextNonce, issued, users, accounts, nextUser,
                 consumeLog, serial>>

\* return existing.user_id / return userId
UpsertReturn(r) ==
  /\ reqs[r].route = "upsert"
  /\ reqs[r].pc = "session"
  /\ reqs' = [reqs EXCEPT ![r] = [@ EXCEPT !.pc = "done", !.status = 200]]
  /\ UNCHANGED <<codec, now, ticks, kv, nextNonce, issued, users, accounts, nextUser,
                 consumeLog, serial>>

InitUpsert ==
  /\ codec = CodecIdle
  /\ now = Epoch0
  /\ ticks = 0
  /\ kv = [n \in Nonces |-> 0]
  /\ nextNonce = 1
  /\ issued = [n \in Nonces |-> [by |-> "none", at |-> 0]]
  /\ \E signedUp \in BOOLEAN :
       /\ users = IF signedUp THEN {FirstUser} ELSE {}
       /\ accounts = IF signedUp THEN {FirstAccount} ELSE {}
       /\ nextUser = IF signedUp THEN 2 ELSE 1
  /\ reqs = [r \in Calls |-> IdleReq]
  /\ consumeLog = <<>>
  /\ serial = TRUE

Upsert(r) ==
  \/ UpsertCall(r)
  \/ UpsertSelect(r)
  \/ UpdateAccount(r)
  \/ UpdateUser(r)
  \/ InsertUser(r)
  \/ InsertAccount(r)
  \/ UpsertReturn(r)

NextUpsert == \E r \in Calls : Upsert(r)

SpecUpsert == InitUpsert /\ [][NextUpsert]_vars

(***************************************************************************)
(* The two tables under upsertUser calls whose statements interleave and   *)
(* under deletions of users.                                               *)
(***************************************************************************)
InitStore ==
  /\ codec = CodecIdle
  /\ now = Epoch0
  /\ ticks = 0
  /\ kv = [n \in Nonces |-> 0]
  /\ nextNonce = 1
  /\ issued = [n \in Nonces |-> [by |-> "none", at |-> 0]]
  /\ \E signedUp \in BOOLEAN :
       /\ users = IF signedUp THEN {FirstUser} ELSE {}
       /\ accounts = IF signedUp THEN {FirstAccount} ELSE {}
       /\ nextUser = IF signedUp THEN 2 ELSE 1
  /\ reqs = [r \in Reqs |-> IdleReq]
  /\ consumeLog = <<>>
  /\ serial = FALSE

NextStore ==
  \/ \E r \in Reqs : Upsert(r)
  \/ DeleteUser

SpecStore == InitStore /\ [][NextStore]_vars

(***************************************************************************)
(* Properties of the nonce store and the callbacks (Spec, SpecSeq).        *)
(***************************************************************************)
ConsumeCalls == 1..Len(consumeLog)

\* C1 as stated: of the consume calls for one nonce, concurrent ones included,
\* at most one returns true.
C1_AtMostOneConsumeSucceeds ==
  \A n \in Nonces :
    Cardinality({i \in ConsumeCalls : consumeLog[i].nonce = n /\ consumeLog[i].ok}) <= 1

\* C2: in a sequence of non-overlapping consume calls on a nonce issued once,
\* the first call made before the nonce expires returns true, and every call
\* after the first returns false.
C2_FirstTrueThenFalse ==
  \A i \in ConsumeCalls :
    LET e == consumeLog[i]
        before == {j \in 1..(i - 1) : consumeLog[j].nonce = e.nonce /\ consumeLog[j].issued}
    IN e.issued =>
         /\ (before = {} /\ e.at < issued[e.nonce].at + STATE_TTL) => e.ok
         /\ before # {} => ~e.ok

\* C2 witness: two consume calls on one issued nonce have returned, the first
\* true and the second false.
C2_Witness ==
  \E i, j \in ConsumeCalls :
    /\ i < j
    /\ consumeLog[i].nonce = consumeLog[j].nonce
    /\ consumeLog[i].issued
    /\ consumeLog[i].ok
    /\ ~consumeLog[j].ok

NeverIssued(state) == state >= nextNonce

\* C3: a callback of any provider that carries a code and a state that was
\* never issued gets the 400 "Invalid state" answer; it calls no provider
\* endpoint, writes no user or linked account and sets no session cookie.
C3_UnissuedStateRejected ==
  \A r \in Reqs :
    LET q == reqs[r]
    IN (q.route = "callback" /\ q.code /\ q.state # 0 /\ NeverIssued(q.state)) =>
         /\ q.pc \in {"kv_get", "done"}
         /\ q.calls = <<>>
         /\ ~q.wrote
         /\ q.uid = 0
         /\ q.cookie = <<>>
         /\ q.pc = "done" => (q.status = 400 /\ q.error = "Invalid state")

\* C3 witness: a callback with a code and a state no login ever issued was
\* answered 400 "Invalid state" while another nonce was live in the store.
C3_Witness ==
  \E r \in Reqs :
    /\ reqs[r].route = "callback"
    /\ reqs[r].pc = "done"
    /\ reqs[r].code
    /\ reqs[r].state = MaxNonces + 1
    /\ reqs[r].status = 400
    /\ reqs[r].error = "Invalid state"
    /\ \E n \in Nonces : KvLive(n)

(***************************************************************************)
(* requireAuth, the auth gate in front of a protected operation.           *)
(***************************************************************************)
\* cookieHeader.match(/wokspec_session=([^;]+)/)?.[1], <<>> when nothing matches
SessionCookieValue(header) ==
  LET lit == StrCookieName \o <<61>>
      starts == {i \in 1..Len(header) :
                   /\ HasAt(header, i, lit)
                   /\ i + Len(lit) <= Len(header)
                   /\ header[i + Len(lit)] # 59}
  IN IF starts = {} THEN <<>>
     ELSE LET from == (CHOOSE i \in starts : \A j \in starts : i <= j) + Len(lit)
              semis == {k \in from..Len(header) : header[k] = 59}
              to == IF semis = {} THEN Len(header)
                    ELSE (CHOOSE k \in semis : \A j \in semis : k <= j) - 1
          IN SubSeq(header, from, to)

\* tokens a client may hold: the session of user 1 minted at Epoch0, the same
\* payload signed with another secret, the session with its signature segment
\* replaced by "!", a payload whose sub is a number, the session of a user
\* that has no row, a session without exp, and "e"
ClientTokens ==
  LET session == createSession(1, Epoch0).val
      parts == Split(session, 46)
  IN { session,
       signJWT(JObj(<< <<StrSub, JStr(IdChars(1))>>,
                       <<StrExp, JNum(Epoch0 + SESSION_TTL)>> >>), <<106>>).val,
       parts[1] \o StrDot \o parts[2] \o <<46, 33>>,
       signJWT(JObj(<< <<StrSub, JNum(1)>>,
                       <<StrExp, JNum(Epoch0 + SESSION_TTL)>> >>), JWT_SECRET).val,
       createSession(MaxUsers + 1, Epoch0).val,
       signJWT(JObj(<< <<StrSub, JStr(IdChars(1))>> >>), JWT_SECRET).val,
       <<101>> }

\* Cookie headers: none, the session cookie alone, between two other cookies,
\* and with an empty value
CookieHeaders ==
  {<<>>, StrCookieName \o <<61>>}
  \cup {StrCookieName \o <<61>> \o t : t \in ClientTokens}
  \cup {<<97, 61, 49, 59, 32>> \o StrCookieName \o <<61>> \o createSession(1, Epoch0).val
        \o <<59, 32, 98, 61, 50>>}

GateStart(r) ==
  /\ reqs[r].pc = "idle"
  /\ SlotsInOrder(r)
  /\ \E header \in CookieHeaders :
       LET q == [reqs[r] EXCEPT !.route = "gate", !.header = header,
                                !.token = SessionCookieValue(header)]
       IN reqs' = [reqs EXCEPT ![r] =
                     IF q.token = <<>> THEN Respond(q, 401, "Not authenticated")
                     ELSE [q EXCEPT !.pc = "verify"]]
  /\ UNCHANGED <<codec, now, ticks, kv, nextNonce, issued, users, accounts, nextUser,
                 consumeLog, serial>>

\* const payload = await verifyJWT(token, c.env.JWT_SECRET)
GateVerify(r) ==
  /\ reqs[r].pc = "verify"
  /\ LET q == [reqs[r] EXCEPT !.vnow = now]
         res == verifyJWT(q.token, JWT_SECRET, now)
     IN reqs' = [reqs EXCEPT ![r] =
                   IF res.kind = "throw" THEN Raise(q)
                   ELSE IF Falsy(res.val) \/ Get(res.val, StrSub).t # "string"
                        THEN Respond(q, 401, "Invalid session")
                   ELSE [q EXCEPT !.pc = "lookup", !.payload = res.val]]
  /\ UNCHANGED <<codec, now, ticks, kv, nextNonce, issued, users, accounts, nextUser,
                 consumeLog, serial>>

\* a gate that clears the session cookie of a user it does not find
GateLookupClearsCookie(r) ==
  /\ reqs[r].pc = "lookup"
  /\ LET q == [reqs[r] EXCEPT !.before = [users |-> users, accounts |-> {}]]
         rows == {u \in users : IdChars(u.id) = Get(q.payload, StrSub).s}
     IN reqs' = [reqs EXCEPT ![r] =
                   IF rows = {}
                   THEN [Respond(q, 401, "User not found") EXCEPT !.setCookie = clearCookie]
                   ELSE [q EXCEPT !.pc = "handler", !.user = CHOOSE u \in rows : TRUE]]
  /\ UNCHANGED <<codec, now, ticks, kv, nextNonce, issued, users, accounts, nextUser,
                 consumeLog, serial>>

\* SELECT ... FROM users WHERE id = ?, then c.set('user', row) and next()
GateLookup(r) ==
  /\ reqs[r].pc = "lookup"
  /\ LET q == [reqs[r] EXCEPT !.before = [users |-> users, accounts |-> {}]]
         rows == {u \in users : IdChars(u.id) = Get(q.payload, StrSub).s}
     IN reqs' = [reqs EXCEPT ![r] =
                   IF rows = {} THEN Respond(q, 401, "User not found")
                   ELSE [q EXCEPT !.pc = "handler", !.user = CHOOSE u \in rows : TRUE]]
  /\ UNCHANGED <<codec, now, ticks, kv, nextNonce, issued, users, accounts, nextUser,
                 consumeLog, serial>>

(***************************************************************************)
(* GET /auth/me and POST /auth/logout.                                     *)
(***************************************************************************)
MeStart(r) ==
  /\ reqs[r].pc = "idle"
  /\ SlotsInOrder(r)
  /\ \E header \in CookieHeaders :
       LET q == [reqs[r] EXCEPT !.route = "me", !.header = header,
                                !.token = SessionCookieValue(header)]
       IN reqs' = [reqs EXCEPT ![r] =
                     IF q.token = <<>> THEN Respond(q, 401, "Unauthorized")
                     ELSE [q EXCEPT !.pc = "me_verify"]]
  /\ UNCHANGED <<codec, now, ticks, kv, nextNonce, issued, users, accounts, nextUser,
                 consumeLog, serial>>

\* const payload = await verifyJWT(token, c.env.JWT_SECRET)
MeVerify(r) ==
  /\ reqs[r].pc = "me_verify"
  /\ LET q == [reqs[r] EXCEPT !.vnow = now]
         res == verifyJWT(q.token, JWT_SECRET, now)
     IN reqs' = [reqs EXCEPT ![r] =
                   IF res.kind = "throw" THEN Raise(q)
                   ELSE IF Falsy(res.val) \/ Get(res.val, StrSub).t # "string"
                        THEN Respond(q, 401, "Invalid session")
                   ELSE [q EXCEPT !.pc = "me_lookup", !.payload = res.val]]
  /\ UNCHANGED <<codec, now, ticks, kv, nextNonce, issued, users, accounts, nextUser,
                 consumeLog, serial>>

\* SELECT ... FROM users WHERE id = ?, then c.json({ ok: true, user })
MeLookup(r) ==
  /\ reqs[r].pc = "me_lookup"
  /\ LET q == [reqs[r] EXCEPT !.before = [users |-> users, accounts |-> {}]]
         rows == {u \in users : IdChars(u.id) = Get(q.payload, StrSub).s}
     IN reqs' = [reqs EXCEPT ![r] =
                   IF rows = {} THEN Respond(q, 401, "User not found")
                   ELSE [Respond(q, 200, "") EXCEPT !.user = CHOOSE u \in rows : TRUE]]
  /\ UNCHANGED <<codec, now, ticks, kv, nextNonce, issued, users, accounts, nextUser,
                 consumeLog, serial>>

Me(r) == MeStart(r) \/ MeVerify(r) \/ MeLookup(r)

\* the requests that log out: with the session cookie, and with no cookie
LogoutHeaders == {<<>>, StrCookieName \o <<61>> \o createSession(1, Epoch0).val}

\* logout that deletes the user of the session
LogoutDeletesUser(r) ==
  /\ reqs[r].pc = "idle"
  /\ SlotsInOrder(r)
  /\ \E header \in LogoutHeaders :
       LET q == [reqs[r] EXCEPT !.route = "logout", !.header = header]
       IN reqs' = [reqs EXCEPT ![r] = [Respond(q, 200, "") EXCEPT !.setCookie = clearCookie]]
  /\ users' = {}
  /\ accounts' = {}
  /\ UNCHANGED <<codec, now, ticks, kv, nextNonce, issued, nextUser, consumeLog, serial>>

\* the handler reads nothing of the request and nothing of the environment
Logout(r) ==
  /\ reqs[r].pc = "idle"
  /\ SlotsInOrder(r)
  /\ \E header \in LogoutHeaders :
       LET q == [reqs[r] EXCEPT !.route = "logout", !.header = header]
       IN reqs' = [reqs EXCEPT ![r] = [Respond(q, 200, "") EXCEPT !.setCookie = clearCookie]]
  /\ UNCHANGED <<codec, now, ticks, kv, nextNonce, issued, users, accounts, nextUser,
                 consumeLog, serial>>

\* requests of a client to a protected operation, to /me and to /logout while
\* the clock advances and the user may be deleted
InitGate ==
  /\ codec = CodecIdle
  /\ now \in {Epoch0, Epoch0 + SESSION_TTL}
  /\ ticks = 0
  /\ kv = [n \in Nonces |-> 0]
  /\ nextNonce = 1
  /\ issued = [n \in Nonces |-> [by |-> "none", at |-> 0]]
  /\ users = {FirstUser}
  /\ accounts = {FirstAccount}
  /\ nextUser = 2
  /\ reqs = [r \in Reqs |-> IdleReq]
  /\ consumeLog = <<>>
  /\ serial = FALSE

Gate(r) == GateStart(r) \/ GateVerify(r) \/ GateLookup(r)

NextGate ==
  \/ \E r \in Reqs : Gate(r)
  \/ \E r \in Reqs : Me(r)
  \/ \E r \in Reqs : Logout(r)
  \/ Tick
  \/ DeleteUser

SpecGate == InitGate /\ [][NextGate]_vars

(***************************************************************************)
(* Properties of the codec (SpecJwt).                                      *)
(***************************************************************************)
Failure == Ret(JNull)

Verified == codec.pc = "verified"

\* the token verified is the one signJWT returned for codec.payload, codec.secret
AsSigned == codec.origin = "signed"

ReturnsPayload == codec.res.kind = "return" /\ codec.res.val # JNull

NumericExp == Get(codec.payload, StrExp).t = "number"

ExpValue == Get(codec.payload, StrExp).n

SameKeyBlock(s1, s2) == KeyBlock(TextEncode(s1)) = KeyBlock(TextEncode(s2))

\* the signature segment of the token is the tag of header.payload under secret
SignatureCorrect(token, secret) ==
  LET parts == Split(token, 46)
  IN /\ Len(parts) = 3
     /\ importKey(secret).kind = "return"
     /\ b64urlDecode(parts[3]).kind = "return"
     /\ HmacVerify(importKey(secret).val, b64urlDecode(parts[3]).val,
                   TextEncode(parts[1] \o StrDot \o parts[2]))

\* C4 as stated: for all payloads P and secrets S, S2 with S2 # S,
\* verify(sign(P, S), S2) never returns a payload.
C4_OtherSecretNeverVerifies ==
  (Verified /\ AsSigned /\ codec.vsecret # codec.secret) => ~ReturnsPayload

\* C4 amended: for all payloads P and non-empty secrets S, S2 whose HMAC key
\* blocks (the secret's UTF-8 bytes, zero-padded to the 64-byte block) differ,
\* verify(sign(P, S), S2) returns the failure value.
C4_OtherKeyBlockFails ==
  (/\ Verified
   /\ AsSigned
   /\ codec.vsecret # <<>>
   /\ ~SameKeyBlock(codec.secret, codec.vsecret)) => codec.res = Failure

\* C4 witness: a token of a payload without expiry, signed with "k", was
\* verified with "j" and failed.
C4_Witness ==
  /\ Verified
  /\ AsSigned
  /\ codec.payload = JObj(<< <<StrSub, JStr(IdA)>> >>)
  /\ codec.secret = SecretK
  /\ codec.vsecret = <<106>>
  /\ codec.res = Failure

\* C5 as stated: for all payloads P and secrets S, verify(sign(P, S), S)
\* returns a payload equal to P.
C5_RoundTrip ==
  (Verified /\ AsSigned /\ codec.vsecret = codec.secret) => codec.res = Ret(codec.payload)

\* C5 amended: for all payloads P that carry no numeric exp smaller than the
\* current epoch second, and all non-empty secrets S, verify(sign(P, S), S)
\* returns a payload equal to P.
C5_RoundTripUnexpired ==
  (/\ Verified
   /\ AsSigned
   /\ codec.vsecret = codec.secret
   /\ ~(NumericExp /\ ExpValue < codec.now)) => codec.res = Ret(codec.payload)

\* C5 witness: a payload with sub and a numeric exp in the future came back
\* from verify as it went into sign.
C5_Witness ==
  /\ Verified
  /\ AsSigned
  /\ codec.vsecret = codec.secret
  /\ codec.payload = JObj(<< <<StrSub, JStr(IdA)>>, <<StrExp, JNum(Epoch0 + SESSION_TTL)>> >>)
  /\ codec.res = Ret(codec.payload)

\* C6 as stated: verify rejects every correctly signed token whose payload has
\* a numeric exp at or before the current epoch second, exp = now included.
C6_ExpAtOrBeforeNowRejected ==
  (/\ Verified
   /\ AsSigned
   /\ codec.vsecret = codec.secret
   /\ NumericExp
   /\ ExpValue <= codec.now) => codec.res = Failure

\* C7: a token whose payload exp is a number strictly less than the current
\* epoch second is rejected by verify although its signature is correct for
\* the secret.
C7_PastExpRejected ==
  (/\ Verified
   /\ AsSigned
   /\ SignatureCorrect(codec.token, codec.vsecret)
   /\ NumericExp
   /\ ExpValue < codec.now) => codec.res = Failure

\* C7 witness: a token with exp one second in the past, verified with the
\* secret that signed it, was rejected.
C7_Witness ==
  /\ Verified
  /\ AsSigned
  /\ codec.vsecret = codec.secret
  /\ NumericExp
  /\ ExpValue = codec.now - 1
  /\ codec.res = Failure

\* C8 as stated: for every token string verify returns a payload or the
\* failure value and never raises, also when the signature segment or the
\* payload segment of a three-segment token is not validly encoded.
C8_VerifyNeverRaises ==
  (Verified /\ codec.vsecret # <<>>) => codec.res.kind = "return"

\* C9: a token that splits on '.' into a number of segments other than three
\* is rejected by verify with the failure value, without raising, for every
\* secret.
C9_NotThreeSegmentsRejected ==
  (Verified /\ Len(Split(codec.token, 46)) # 3) => codec.res = Failure

\* C9 witness: a correctly signed token with a fourth segment appended was
\* verified with the secret that signed it and rejected.
C9_Witness ==
  /\ Verified
  /\ codec.origin = "extended"
  /\ Len(Split(codec.token, 46)) = 4
  /\ codec.vsecret = codec.secret
  /\ codec.res = Failure

(***************************************************************************)
(* Properties of the auth gate (SpecGate).                                 *)
(***************************************************************************)
\* the token's payload as verifyJWT decodes it, whatever the signature
PayloadOf(token) ==
  LET parts == Split(token, 46)
      bytes == IF Len(parts) = 3 THEN b64urlDecode(parts[2]) ELSE Throw
      parsed == IF bytes.kind = "throw" THEN Throw ELSE JSONparse(TextDecode(bytes.val))
  IN IF parsed.kind = "throw" THEN JNull ELSE parsed.val

\* C10 as stated: the wrapped operation runs only for a request whose cookie
\* holds a token that verifies with the signing secret, is not expired, has a
\* string sub and names a user row, which is the row injected; every other
\* request is answered 401.
C10_GateRunsOnlyAuthenticated ==
  \A r \in Reqs :
    LET q == reqs[r]
    IN q.route = "gate" =>
         /\ q.pc = "handler" =>
              /\ q.token # <<>>
              /\ SignatureCorrect(q.token, JWT_SECRET)
              /\ ~(Get(PayloadOf(q.token), StrExp).t = "number"
                   /\ Get(PayloadOf(q.token), StrExp).n < q.vnow)
              /\ Get(PayloadOf(q.token), StrSub).t = "string"
              /\ q.user.id # 0
              /\ IdChars(q.user.id) = Get(PayloadOf(q.token), StrSub).s
         /\ q.pc = "done" => q.status = 401

(***************************************************************************)
(* Properties of upsertUser (SpecUpsert).                                  *)
(***************************************************************************)
\* call r is the one made last: the tables are as it left them
LastCall(r) ==
  /\ reqs[r].route = "upsert"
  /\ \A o \in DOMAIN reqs : o > r => reqs[o].pc = "idle"

Returned(q) == q.route = "upsert" /\ q.pc = "done" /\ q.status = 200

Failed(q) == q.route = "upsert" /\ q.pc = "done" /\ q.status = 500

LinkedIn(rows, provider, puid) ==
  {a \in rows : a.provider = provider /\ a.provider_user_id = puid}

\* the identity of call q had a linked account when the call was made
Known(q) == LinkedIn(q.before.accounts, q.provider, q.args.puid) # {}

UserIds(rows) == {u.id : u \in rows}

AccountKeys(rows) == {<<a.provider, a.provider_user_id>> : a \in rows}

RowOf(rows, id) == CHOOSE u \in rows : u.id = id

C12_UpdateCoalesces ==
  \A r \in DOMAIN reqs :
    LET q == reqs[r]
    IN (LastCall(r) /\ q.pc = "done" /\ Known(q)) =>
         \A a \in LinkedIn(q.before.accounts, q.provider, q.args.puid) :
           LET old == RowOf(q.before.users, a.user_id)
               new == RowOf(users, a.user_id)
           IN /\ new.email = Coalesce(q.args.prof.email, old.email)
              /\ new.display_name = Coalesce(q.args.prof.displayName, old.display_name)
              /\ new.avatar_url = Coalesce(q.args.prof.avatarUrl, old.avatar_url)

\* another provider's identity is linked to a user that has this email
SameEmailElsewhere(q) ==
  /\ q.args.prof.email # NULL
  /\ \E a \in q.before.accounts :
       /\ a.provider # q.provider
       /\ RowOf(q.before.users, a.user_id).email = q.args.prof.email

\* C13 as stated: a call for a new identity whose email another provider's
\* identity already has returns, and afterwards the two identities are
\* linked to two users with distinct ids.
C13_SameEmailTwoUsers ==
  \A r \in DOMAIN reqs :
    LET q == reqs[r]
    IN (LastCall(r) /\ q.pc = "done" /\ ~Known(q) /\ SameEmailElsewhere(q)) =>
         /\ Returned(q)
         /\ \E u \in users : u.id = q.uid /\ u.email = q.args.prof.email
         /\ \A a \in q.before.accounts : a.user_id # q.uid
         /\ Cardinality(LinkedIn(accounts, q.provider, q.args.puid)) = 1

\* C14 as stated: a call that failed has left users and oauth_accounts as
\* they were when it was made.
C14_FailedUpsertWritesNothing ==
  \A r \in DOMAIN reqs :
    LET q == reqs[r]
    IN (LastCall(r) /\ Failed(q)) =>
         /\ users = q.before.users
         /\ accounts = q.before.accounts

(***************************************************************************)
(* Properties of the two tables (SpecStore, SpecUpsert).                   *)
(***************************************************************************)
\* C21: in every state reached by upsert calls and deletions of users, no two
\* linked accounts have the same (provider, provider_user_id), every linked
\* account's user_id is the id of a user row, and no user has two linked
\* accounts of one provider.
C21_TablesConsistent ==
  /\ \A a, b \in accounts :
       (a.provider = b.provider /\ a.provider_user_id = b.provider_user_id) => a = b
  /\ \A a \in accounts : \E u \in users : u.id = a.user_id
  /\ \A a, b \in accounts :
       (a.user_id = b.user_id /\ a.provider = b.provider) => a = b
  /\ \A u, v \in users : u.id = v.id => u = v

\* C21 witness: a call linked an identity to a new user, that user has been
\* deleted since and the identity's linked account with it, while another
\* user and its linked account are still there.
C21_Witness ==
  /\ accounts # {}
  /\ \E r \in DOMAIN reqs :
       /\ Returned(reqs[r])
       /\ ~Known(reqs[r])
       /\ \A u \in users : u.id # reqs[r].uid
       /\ LinkedIn(accounts, reqs[r].provider, reqs[r].args.puid) = {}

\* C25 as stated: when two calls for one identity that had no linked account
\* are over, their statements interleaved in any order, at most one user row
\* made by them and at most one linked account of the identity exist.
C25_ConcurrentUpsertOneUser ==
  \A r1, r2 \in DOMAIN reqs :
    LET q1 == reqs[r1]
        q2 == reqs[r2]
    IN (/\ r1 # r2
        /\ q1.route = "upsert" /\ q1.pc = "done" /\ ~Known(q1)
        /\ q2.route = "upsert" /\ q2.pc = "done" /\ ~Known(q2)
        /\ q1.provider = q2.provider
        /\ q1.args.puid = q2.args.puid) =>
         /\ Cardinality({u \in users : u.id \in {q1.uid, q2.uid}}) <= 1
         /\ Cardinality(LinkedIn(accounts, q1.provider, q1.args.puid)) <= 1

\* C29: a call that found a linked account leaves that account's user_id,
\* provider and provider_user_id and the owning user's id and username as
\* they were, and leaves every other row of the two tables as it was.
C29_UpdateKeepsIdentity ==
  \A r \in DOMAIN reqs :
    LET q == reqs[r]
    IN (LastCall(r) /\ Known(q)) =>
         \A a \in LinkedIn(q.before.accounts, q.provider, q.args.puid) :
           /\ \E b \in accounts :
                /\ b.provider = a.provider
                /\ b.provider_user_id = a.provider_user_id
                /\ b.user_id = a.user_id
           /\ Cardinality(accounts) = Cardinality(q.before.accounts)
           /\ accounts \ LinkedIn(accounts, q.provider, q.args.puid) =
                q.before.accounts \ {a}
           /\ \E u \in users :
                /\ u.id = a.user_id
                /\ u.username = RowOf(q.before.users, a.user_id).username
           /\ {u \in users : u.id # a.user_id} =
                {u \in q.before.users : u.id # a.user_id}

\* C29 witness: a call whose profile has another username than the one
\* stored (null included) found the linked account and returned.
C29_Witness ==
  \E r \in DOMAIN reqs :
    LET q == reqs[r]
    IN /\ LastCall(r)
       /\ Known(q)
       /\ Returned(q)
       /\ \E a \in LinkedIn(q.before.accounts, q.provider, q.args.puid) :
            /\ RowOf(q.before.users, a.user_id).username = NULL
            /\ q.args.prof.username # NULL

(***************************************************************************)
(* Properties of the callbacks after consumeState (Spec).                  *)
(***************************************************************************)
InUpsert(q) == q.pc \in {"upd_account", "upd_user", "ins_user", "ins_account", "session"}

\* C15 as stated: a callback whose profile response carries no user id is
\* answered 400; upsert is not called, nothing is written and no session
\* cookie is issued.
C15_ProfileFailureRejected ==
  \A r \in Reqs :
    LET q == reqs[r]
    IN (q.route = "callback" /\ q.noId) =>
         /\ ~InUpsert(q)
         /\ ~q.wrote
         /\ q.cookie = <<>>
         /\ q.pc = "done" => q.status = 400

\* C16: a callback response carries a session cookie only when, in this
\* order, the state was consumed, the token exchange gave an access token,
\* the profile was fetched and upsert returned a user id; the token's sub is
\* that id, its exp is the minting second plus 604800, and the response is
\* the 302 to the post-login destination.
C16_CookieOnlyAfterFullFlow ==
  \A r \in Reqs :
    LET q == reqs[r]
    IN (q.route = "callback" /\ q.cookie # <<>>) =>
         /\ q.pc = "done"
         /\ q.status = 302
         /\ q.location = POST_LOGIN_REDIRECT
         /\ q.steps = <<"consume", "token", "profile", "upsert">>
         /\ q.uid # 0
         /\ Get(PayloadOf(q.cookie), StrSub) = JStr(IdChars(q.uid))
         /\ Get(PayloadOf(q.cookie), StrExp) = JNum(q.minted + SESSION_TTL)

\* C16 witness: a callback has set a session cookie minted after the clock
\* moved on from the second in which its state was consumed.
C16_Witness ==
  \E r \in Reqs :
    /\ reqs[r].route = "callback"
    /\ reqs[r].status = 302
    /\ reqs[r].cookie # <<>>
    /\ reqs[r].minted > reqs[r].vnow

\* C17: a callback whose token response holds no access token is answered
\* 400 "Token exchange failed"; it calls no profile endpoint, writes no user
\* or linked account and sets no session cookie.
C17_NoAccessTokenRejected ==
  \A r \in Reqs :
    LET q == reqs[r]
    IN (q.route = "callback" /\ q.noToken) =>
         /\ q.pc = "done"
         /\ q.status = 400
         /\ q.error = "Token exchange failed"
         /\ q.calls = <<"token">>
         /\ ~q.wrote
         /\ q.uid = 0
         /\ q.cookie = <<>>

\* C17 witness: a callback that consumed its state got a token response
\* without an access token and was answered.
C17_Witness ==
  \E r \in Reqs :
    /\ reqs[r].route = "callback"
    /\ reqs[r].noToken
    /\ reqs[r].steps = <<"consume">>
    /\ reqs[r].pc = "done"

LacksParam(q) == q.route = "callback" /\ (~q.code \/ q.state = 0)

\* C18: a callback without a code or without a state is answered 400
\* "Missing code or state" at once; the step that answers it leaves the nonce
\* store as it was and starts no consumeState call, and the request makes no
\* upstream call.
C18_MissingParamRejected ==
  /\ [](\A r \in Reqs :
          LacksParam(reqs[r]) =>
            /\ reqs[r].pc = "done"
            /\ reqs[r].status = 400
            /\ reqs[r].error = "Missing code or state"
            /\ reqs[r].calls = <<>>
            /\ reqs[r].steps = <<>>
            /\ ~reqs[r].wrote
            /\ reqs[r].cookie = <<>>)
  /\ [][\A r \in Reqs :
          (reqs[r].pc = "idle" /\ LacksParam(reqs'[r])) =>
            (kv' = kv /\ consumeLog' = consumeLog)]_vars

\* C18 witness: the first callback carried a state but no code and was
\* answered 400, and a later callback consumed that same state.
C18_Witness ==
  \E i \in ConsumeCalls :
    /\ reqs[1].route = "callback"
    /\ ~reqs[1].code
    /\ reqs[1].state \in Nonces
    /\ reqs[1].pc = "done"
    /\ consumeLog[i].nonce = reqs[1].state
    /\ consumeLog[i].ok

\* the kv.get of request q was made after the TTL of its state had elapsed
AfterTtl(q) ==
  /\ q.route = "callback"
  /\ q.pc \notin {"idle", "kv_get"}
  /\ ~LacksParam(q)
  /\ q.state < nextNonce
  /\ q.vnow >= issued[q.state].at + STATE_TTL

\* C19: a consume call made 600 seconds or more after its nonce was issued
\* returns false, and the callback that made it is answered 400 "Invalid
\* state".
C19_ExpiredNonceRejected ==
  /\ \A i \in ConsumeCalls :
       (consumeLog[i].issued
        /\ consumeLog[i].at >= issued[consumeLog[i].nonce].at + STATE_TTL)
         => ~consumeLog[i].ok
  /\ \A r \in Reqs :
       AfterTtl(reqs[r]) =>
         /\ reqs[r].pc = "done"
         /\ reqs[r].status = 400
         /\ reqs[r].error = "Invalid state"
         /\ reqs[r].steps = <<>>

\* C19 witness: a nonce was issued, nobody consumed it, its TTL elapsed, and
\* the callback that then carried it was rejected.
C19_Witness ==
  \E r \in Reqs :
    /\ AfterTtl(reqs[r])
    /\ reqs[r].miss = "expired"
    /\ reqs[r].pc = "done"
    /\ \A i \in ConsumeCalls : ~consumeLog[i].ok

Response(q) == [status |-> q.status, error |-> q.error, cookie |-> q.cookie,
                location |-> q.location]

\* C20: the responses to callbacks whose state was never issued, was already
\* consumed or has expired are the same response, 400 "Invalid state".
C20_InvalidStateIndistinguishable ==
  \A r1, r2 \in Reqs :
    (reqs[r1].miss # "" /\ reqs[r2].miss # "") =>
      /\ Response(reqs[r1]) = Response(reqs[r2])
      /\ reqs[r1].status = 400
      /\ reqs[r1].error = "Invalid state"

\* C20 witness: two callbacks were rejected, each for another of the three
\* reasons.
C20_Witness ==
  \E r1, r2 \in Reqs :
    /\ reqs[r1].miss # ""
    /\ reqs[r2].miss # ""
    /\ reqs[r1].miss # reqs[r2].miss

(***************************************************************************)
(* Properties of the gate, /me and /logout (SpecGate).                     *)
(***************************************************************************)
\* C22: no step of the auth gate changes the users table, the oauth_accounts
\* table or the nonce store, and no response of the gate carries a
\* Set-Cookie header.
C22_GateHasNoSideEffect ==
  [][\A r \in Reqs :
       (reqs'[r] # reqs[r] /\ reqs'[r].route = "gate") =>
         /\ users' = users
         /\ accounts' = accounts
         /\ kv' = kv
         /\ nextNonce' = nextNonce
         /\ issued' = issued
         /\ reqs'[r].setCookie = <<>>
         /\ reqs'[r].cookie = <<>>]_vars

\* C22 witness: the gate has let one request through and answered another
\* 401 after looking for its user.
C22_Witness ==
  \E r1, r2 \in Reqs :
    /\ reqs[r1].route = "gate"
    /\ reqs[r1].pc = "handler"
    /\ reqs[r2].route = "gate"
    /\ reqs[r2].status = 401
    /\ reqs[r2].error = "User not found"

ErrorResponse(q) == q.pc = "done" /\ q.status >= 400

\* C23 as stated: the error responses of the gate and of the auth endpoints
\* have one shape, a JSON body that carries a code, a message and a status.
C23_ErrorShapeConsistent ==
  \A r1, r2 \in Reqs :
    (ErrorResponse(reqs[r1]) /\ ErrorResponse(reqs[r2])) =>
      /\ reqs[r1].body.kind = "json"
      /\ reqs[r1].body.keys = reqs[r2].body.keys
      /\ reqs[r1].body.errorKeys = reqs[r2].body.errorKeys
      /\ {"code", "message", "status"} \subseteq
           (reqs[r1].body.keys \cup reqs[r1].body.errorKeys)

\* a Set-Cookie header value as the client reads it: name=value, then the
\* attributes after each "; "
FirstIndex(h, c) ==
  IF \E i \in 1..Len(h) : h[i] = c
  THEN CHOOSE i \in 1..Len(h) : h[i] = c /\ \A j \in 1..(i - 1) : h[j] # c
  ELSE Len(h) + 1

SetCookieName(h) == SubSeq(h, 1, FirstIndex(h, 61) - 1)

SetCookieValue(h) == SubSeq(h, FirstIndex(h, 61) + 1, FirstIndex(h, 59) - 1)

StrMaxAge == <<59, 32, 77, 97, 120, 45, 65, 103, 101, 61>>  \* "; Max-Age="

SetCookieMaxAge(h) ==
  LET at == {i \in 1..Len(h) : HasAt(h, i, StrMaxAge)}
  IN IF at = {} THEN <<>>
     ELSE LET from == (CHOOSE i \in at : TRUE) + Len(StrMaxAge)
              rest == SubSeq(h, from, Len(h))
          IN SubSeq(rest, 1, FirstIndex(rest, 59) - 1)

SessionOfFirstUser == createSession(1, Epoch0).val

\* a request to the gate or to /me that carried the session minted at Epoch0
\* and whose token was verified before the session's exp
VerifiedInTime(q) ==
  /\ q.route \in {"gate", "me"}
  /\ q.token = SessionOfFirstUser
  /\ q.pc \notin {"idle", "verify", "me_verify"}
  /\ q.vnow < Epoch0 + SESSION_TTL

Accepted(q) ==
  \/ q.route = "gate" /\ q.pc = "handler" /\ q.user = FirstUser
  \/ q.route = "me" /\ q.pc = "done" /\ q.status = 200 /\ q.user = FirstUser

\* C24: logout answers 200 with a Set-Cookie that sets wokspec_session to the
\* empty value with Max-Age=0 and its step changes neither table nor the
\* nonce store; a session minted before is, logout or not, never found
\* invalid by the gate or by /me before its exp, and is accepted whenever
\* its user's row is there at the lookup.
C24_LogoutRevokesNothing ==
  /\ [](\A r \in Reqs :
          reqs[r].route = "logout" =>
            /\ reqs[r].pc = "done"
            /\ reqs[r].status = 200
            /\ SetCookieName(reqs[r].setCookie) = StrCookieName
            /\ SetCookieValue(reqs[r].setCookie) = <<>>
            /\ SetCookieMaxAge(reqs[r].setCookie) = <<48>>)
  /\ [][\A r \in Reqs :
          (reqs'[r] # reqs[r] /\ reqs'[r].route = "logout") =>
            /\ users' = users
            /\ accounts' = accounts
            /\ kv' = kv
            /\ nextNonce' = nextNonce
            /\ issued' = issued]_vars
  /\ [](\A r \in Reqs :
          VerifiedInTime(reqs[r]) =>
            /\ reqs[r].pc \in {"lookup", "me_lookup"} \/ reqs[r].pc = "handler"
               \/ reqs[r].pc = "done"
            /\ reqs[r].status # 500
            /\ reqs[r].error # "Invalid session"
            /\ (reqs[r].pc \in {"handler", "done"} /\ FirstUser \in reqs[r].before.users)
                 => Accepted(reqs[r]))

\* C24 witness: logout answered the client that sent its session cookie, the
\* clock moved on, and then a request with that same session was accepted.
C24_Witness ==
  /\ reqs[1].route = "logout"
  /\ reqs[1].pc = "done"
  /\ reqs[1].header # <<>>
  /\ \E r \in Reqs :
       /\ r > 1
       /\ VerifiedInTime(reqs[r])
       /\ Accepted(reqs[r])
       /\ reqs[r].vnow > Epoch0

GateDone(q) == q.route = "gate" /\ q.pc \in {"handler", "done"}

MeDone(q) == q.route = "me" /\ q.pc = "done"

\* the two requests carried the same header, verified at the same second and
\* looked the user up in the same table
SameInputs(g, m) ==
  /\ g.header = m.header
  /\ g.vnow = m.vnow
  /\ g.before.users = m.before.users

\* C28 as stated: for the same request and store state, /me answers 401
\* exactly when the gate answers 401, and otherwise answers 200 with the
\* user row the gate injects.
C28_MeDecidesAsGate ==
  \A r1, r2 \in Reqs :
    LET g == reqs[r1]
        m == reqs[r2]
    IN (GateDone(g) /\ MeDone(m) /\ SameInputs(g, m)) =>
         /\ (g.pc = "done" /\ g.status = 401) <=> (m.status = 401)
         /\ m.status # 401 =>
              /\ m.status = 200
              /\ g.pc = "handler"
              /\ m.user = g.user

(***************************************************************************)
(* Properties of the nonce across callbacks (Spec).                        *)
(***************************************************************************)
\* the callback consumed its state and was then rejected, at the token
\* exchange or later
RejectedAfterConsume(q) ==
  /\ q.route = "callback"
  /\ q.pc = "done"
  /\ q.steps # <<>>
  /\ q.status # 302

NoRepeat(seq) == \A i, j \in 1..Len(seq) : seq[i] = seq[j] => i = j

\* C26: a callback makes each of its steps and each upstream call at most
\* once and consumes the state before the token exchange; once a callback
\* is rejected at the token exchange or later its state is gone from the
\* store for good, and a callback that then looks the same state up is
\* answered 400 "Invalid state" without any further step.
C26_NoRetryStateStaysConsumed ==
  /\ [](\A r \in Reqs :
          reqs[r].route = "callback" =>
            /\ NoRepeat(reqs[r].steps)
            /\ NoRepeat(reqs[r].calls)
            /\ reqs[r].calls # <<>> => (reqs[r].steps # <<>> /\ reqs[r].steps[1] = "consume")
            /\ RejectedAfterConsume(reqs[r]) => ~KvLive(reqs[r].state))
  /\ [][\A r1, r2 \in Reqs :
          (/\ RejectedAfterConsume(reqs[r1])
           /\ reqs[r2].route = "callback"
           /\ reqs[r2].pc = "kv_get"
           /\ reqs[r2].state = reqs[r1].state
           /\ reqs'[r2] # reqs[r2]) =>
            /\ reqs'[r2].pc = "done"
            /\ reqs'[r2].status = 400
            /\ reqs'[r2].error = "Invalid state"
            /\ reqs'[r2].steps = <<>>
            /\ reqs'[r2].calls = <<>>
            /\ reqs'[r2].cookie = <<>>]_vars

\* C26 witness: a callback consumed its state and failed at the token
\* exchange; a second callback with the same state found it consumed.
C26_Witness ==
  \E r1, r2 \in Reqs :
    /\ RejectedAfterConsume(reqs[r1])
    /\ reqs[r1].noToken
    /\ reqs[r2].route = "callback"
    /\ reqs[r2].state = reqs[r1].state
    /\ reqs[r2].pc = "done"
    /\ reqs[r2].miss = "consumed"

\* C27 as stated: a callback consumes a state only when the login of its own
\* provider issued it.
C27_StateBoundToProvider ==
  \A r \in Reqs :
    (reqs[r].route = "callback" /\ reqs[r].steps # <<>>) =>
      issued[reqs[r].state].by = reqs[r].provider

====
